---- MODULE Spec2Model ----
(***************************************************************************)
(* A model of tools/autogen.py: the generator that reads the declarations  *)
(* of public_api.h and writes the context struct declaration, the context  *)
(* struct initializer, the inline trampolines and the PyPy descriptor.     *)
(*                                                                         *)
(* A Python string is modelled as a sequence of atoms.  An atom is a TLA+  *)
(* string: one character of an identifier, or one chunk of literal text of *)
(* a format string.  Concatenation and '%' formatting are \o, str.join is  *)
(* Join, and what a claim says about a generated text is read back from    *)
(* the text by splitting it again.                                         *)
(***************************************************************************)
EXTENDS Integers, Sequences, FiniteSets, TLC

\* ------------------------------------------------------------------ bounds
\* The largest number of top-level declarations of public_api.h.
MaxDecls == 2
\* How many times the tool is run on the same public_api.h.
MaxRuns == 2

\* ----------------------------------------------------------------- strings
S(lit) == <<lit>>

RECURSIVE Join(_, _)
\* sep.join(strs)
Join(sep, strs) ==
  IF strs = <<>> THEN <<>>
  ELSE IF Len(strs) = 1 THEN strs[1]
  ELSE strs[1] \o sep \o Join(sep, Tail(strs))

\* s.startswith(p)
StartsWith(s, p) == Len(s) >= Len(p) /\ SubSeq(s, 1, Len(p)) = p

\* c.upper() for the characters of the names of the model
UpperChar(c) ==
  CASE c = "h" -> "H"
    [] c = "g" -> "G"
    [] c = "y" -> "Y"
    [] c = "c" -> "C"
    [] c = "t" -> "T"
    [] c = "x" -> "X"
    [] OTHER -> c

\* s.upper()
Upper(s) == [i \in 1..Len(s) |-> UpperChar(s[i])]

\* Python's None, where a string may stand
None == <<"<None>">>

\* bool(s) of a string or None
Truthy(s) == s # None /\ s # <<>>

DISCLAIMER ==
  <<"\n", "/*", "\n", "   DO NOT EDIT THIS FILE!", "\n", "\n",
    "   This file is automatically generated by tools/autogen.py from tools/public_api.h.",
    "\n", "   Run this to regenerate:", "\n", "       make autogen", "\n", "\n",
    "*/", "\n">>

\* ------------------------------------------------- pycparser's declarations
\* A parameter of a function declaration: a c_ast.Decl (named), a
\* c_ast.Typename (its name is None) or a c_ast.EllipsisParam (which has no
\* name attribute at all).
Param(n, t) == [kind |-> "Decl", name |-> n, type |-> t]
Unnamed(t) == [kind |-> "Typename", name |-> None, type |-> t]
Ellipsis == [kind |-> "EllipsisParam", name |-> None, type |-> "..."]

\* A top-level c_ast.Decl.  shape is the class of node.type; name is
\* Decl.name; declname is the declname of the innermost TypeDecl (the name
\* the C generator prints); type is the return type or the variable's type;
\* ptr tells that node.type has been wrapped in a PtrDecl; hasargs is false
\* when node.type.args is None (a function declared with '()').
FuncNode(n, ret, ps) ==
  [shape |-> "FuncDecl", name |-> n, declname |-> n, type |-> ret,
   params |-> ps, hasargs |-> TRUE, ptr |-> FALSE]
NoArgsFuncNode(n, ret) ==
  [shape |-> "FuncDecl", name |-> n, declname |-> n, type |-> ret,
   params |-> <<>>, hasargs |-> FALSE, ptr |-> FALSE]
VarNode(n, t) ==
  [shape |-> "TypeDecl", name |-> n, declname |-> n, type |-> t,
   params |-> <<>>, hasargs |-> FALSE, ptr |-> FALSE]
OtherNode(n, t) ==
  [shape |-> "PtrDecl", name |-> n, declname |-> n, type |-> t,
   params |-> <<>>, hasargs |-> FALSE, ptr |-> FALSE]

N_HPy_F == <<"H", "P", "y", "_", "F">>
N__HPy_F == <<"_", "H", "P", "y", "_", "F">>
N_HPyE == <<"H", "P", "y", "E">>
N_HPy_G == <<"H", "P", "y", "_", "G">>
N_HPy_B == <<"H", "P", "y", "_", "B">>
N_HPy_Z == <<"H", "P", "y", "_", "Z">>
N_Py_F == <<"P", "y", "_", "F">>
N_h_N == <<"h", "_", "N">>
N_h_T == <<"h", "_", "T">>
N_g_N == <<"g", "_", "N">>
N_h_P == <<"h", "_", "P">>

\* The declarations public_api.h is drawn from.
DeclPool ==
  { FuncNode(N_HPy_F, "HPy", <<Param(S("ctx"), "HPyContext"), Param(S("x"), "int")>>),
    FuncNode(N__HPy_F, "void", <<Param(S("ctx"), "HPyContext")>>),
    FuncNode(N_HPyE, "HPy",
             <<Param(S("ctx"), "HPyContext"), Param(S("fmt"), "char"), Ellipsis>>),
    FuncNode(N_HPy_G, "void", <<Param(S("ctx"), "HPyContext"), Ellipsis>>),
    FuncNode(N_HPy_B, "HPy", <<Param(S("ctx"), "HPyContext"), Unnamed("int")>>),
    NoArgsFuncNode(N_HPy_Z, "HPy"),
    FuncNode(N_Py_F, "int", <<Unnamed("int")>>),
    VarNode(N_h_N, "HPy"),
    VarNode(N_h_T, "int"),
    VarNode(N_g_N, "int"),
    OtherNode(N_h_P, "HPy") }

RECURSIVE SeqsUpTo(_, _)
SeqsUpTo(set, n) ==
  IF n = 0 THEN {<<>>}
  ELSE LET shorter == SeqsUpTo(set, n - 1)
       IN shorter \cup {Append(s, e) : s \in {t \in shorter : Len(t) = n - 1}, e \in set}

\* ------------------------------------------------------------------- toC
\* toC of one parameter
ParamToC(p) ==
  IF p.kind = "EllipsisParam" THEN S("...")
  ELSE IF p.kind = "Typename" THEN S(p.type)
  ELSE <<p.type, " ">> \o p.name

\* toC(node) for a top-level declaration: "HPy h_None",
\* "HPy HPy_F(HPyContext ctx, int x)" or "HPy (*ctx_F)(HPyContext ctx, int x)"
toC(node) ==
  IF node.shape = "FuncDecl"
  THEN <<node.type, " ">>
       \o (IF node.ptr THEN S("(*") \o node.declname \o S(")") ELSE node.declname)
       \o S("(")
       \o Join(S(", "), [i \in 1..Len(node.params) |-> ParamToC(node.params[i])])
       \o S(")")
  ELSE <<node.type, " ">>
       \o (IF node.shape = "PtrDecl" THEN S("*") ELSE <<>>)
       \o node.declname

\* ---------------------------------------------------------------- Function
\* An entry of the declarations list: cls is "Function" or "GlobalVar".
Function(name, node) == [cls |-> "Function", name |-> name, node |-> node]
GlobalVar(name, node) == [cls |-> "GlobalVar", name |-> name, node |-> node]

\* (mutant of Function_ctx_name: the pattern is '^_?HPy', so that the
\* underscore after HPy stays)
Function_ctx_name_keeps_separator(self) ==
  LET name == self.name
      hpy == <<"H", "P", "y">>
      u == IF StartsWith(name, S("_") \o hpy) THEN 1 ELSE 0
  IN IF StartsWith(SubSeq(name, u + 1, Len(name)), hpy)
     THEN <<"c", "t", "x", "_">> \o SubSeq(name, u + 4, Len(name))
     ELSE name

\* _CTX_NAME.sub(r'ctx_', name), _CTX_NAME = re.compile(r'^_?HPy_?')
Function_ctx_name(self) ==
  LET name == self.name
      hpy == <<"H", "P", "y">>
      u == IF StartsWith(name, S("_") \o hpy) THEN 1 ELSE 0
      matched == StartsWith(SubSeq(name, u + 1, Len(name)), hpy)
      after == SubSeq(name, u + 4, Len(name))
      rest == IF StartsWith(after, S("_")) THEN Tail(after) ELSE after
  IN IF matched THEN <<"c", "t", "x", "_">> \o rest ELSE name

Function_ctx_impl_name(self) == S("&") \o Function_ctx_name(self)

Function_is_varargs(self) ==
  /\ Len(self.node.params) > 0
  /\ self.node.params[Len(self.node.params)].kind = "EllipsisParam"

\* (mutant of deepcopy_keeps: newnode = self.node, so that ctx_decl works on
\* the entry's own node)
deepcopy_aliases(node, touched) == touched

\* deepcopy(self.node): a node of its own, so that what ctx_decl does to the
\* copy is not done to self.node.  touched is the node ctx_decl has worked
\* on; the result is what self.node is afterwards.
deepcopy_keeps(node, touched) == node

\* ctx_decl up to the renaming: the copy wrapped in a PtrDecl, its ellipsis
\* replaced by the 'va_list _vl' argument.
Function_ctx_decl_ptrnode(self) ==
  LET n == Len(self.node.params)
      arg == Param(S("_vl"), "va_list")
      ptrnode == [self.node EXCEPT !.ptr = TRUE]
  IN IF Function_is_varargs(self)
     THEN [ptrnode EXCEPT !.params[n] = arg]
     ELSE ptrnode

\* (mutant of Function_ctx_decl_newnode: the function pointer keeps the
\* declared name)
Function_ctx_decl_unrenamed(self) == Function_ctx_decl_ptrnode(self)

\* typedecl.declname = self.ctx_name()
Function_ctx_decl_newnode(self) ==
  [Function_ctx_decl_ptrnode(self) EXCEPT !.declname = Function_ctx_name(self)]

\* ctx_decl returns toC(newnode); self is the entry afterwards.
Function_ctx_decl(self) ==
  LET newnode == Function_ctx_decl_newnode(self)
  IN [out |-> toC(newnode),
      self |-> [self EXCEPT !.node = deepcopy_keeps(self.node, newnode)]]

\* self.node.type.args.params[-2].name
Function_last_param(node) == node.params[Len(node.params) - 1].name

\* (mutant of Function_varargs_params: '_vl' is not appended)
Function_varargs_params_fixed_only(node) ==
  [i \in 1..(Len(node.params) - 1) |-> node.params[i].name]

\* [p.name for p in self.node.type.args.params[:-1]] and then '_vl'
Function_varargs_params(node) ==
  Append([i \in 1..(Len(node.params) - 1) |-> node.params[i].name], S("_vl"))

\* (mutant of Function_varargs_tail: the return comes before va_end)
Function_varargs_tail_early_return(rettype) ==
  (IF rettype # S("void") THEN <<S("return _res;")>> ELSE <<>>)
  \o <<S("va_end(_vl);")>>

\* the parts of the varargs branch between the call and the closing brace
Function_varargs_tail(rettype) ==
  <<S("va_end(_vl);")>>
  \o (IF rettype # S("void") THEN <<S("return _res;")>> ELSE <<>>)

\* (mutant of Function_forward_params: the last parameter is not forwarded)
Function_forward_params_short(node) ==
  [i \in 1..(Len(node.params) - 1) |-> node.params[i].name]

\* [p.name for p in self.node.type.args.params]
Function_forward_params(node) ==
  [i \in 1..Len(node.params) |-> node.params[i].name]

Function_trampoline_def(self) ==
  LET node == self.node
      n == Len(node.params)
      rettype == S(node.type)
      head == <<S("static inline"), toC(node), S("{\n    ")>>
      body ==
        IF ~Function_is_varargs(self)
        THEN <<(IF rettype = S("void")
                THEN S("ctx->") \o Function_ctx_name(self)
                ELSE <<"return ", "ctx->">> \o Function_ctx_name(self)),
               S("("),
               Join(S(", "), Function_forward_params(node)),
               S(");")>>
        ELSE <<S("va_list _vl;"),
               S("va_start(_vl, ") \o Function_last_param(node) \o S(");"),
               (IF rettype = S("void")
                THEN S("ctx->") \o Function_ctx_name(self)
                ELSE rettype \o <<" _res = ", "ctx->">> \o Function_ctx_name(self)),
               S("("),
               Join(S(", "), Function_varargs_params(node)),
               S(");")>>
             \o Function_varargs_tail(rettype)
  IN Join(S(" "), head \o body \o <<S("\n}")>>)

\* (mutant of Function_ctx_pypy_type: a callable is tagged as a handle)
Function_ctx_pypy_type_handle(self) == S("HPy")

Function_ctx_pypy_type(self) == S("rffi.VOIDP")

\* --------------------------------------------------------------- GlobalVar
GlobalVar_ctx_name(self) == self.name

GlobalVar_ctx_impl_name(self) == S("(HPy){CONSTANT_") \o Upper(self.name) \o S("}")

GlobalVar_ctx_decl(self) == [out |-> toC(self.node), self |-> self]

GlobalVar_trampoline_def(self) == None

GlobalVar_ctx_pypy_type(self) == S("HPy")

\* ------------------------------------------------- dispatch on the class
ctx_name(f) ==
  IF f.cls = "Function" THEN Function_ctx_name(f) ELSE GlobalVar_ctx_name(f)
ctx_impl_name(f) ==
  IF f.cls = "Function" THEN Function_ctx_impl_name(f) ELSE GlobalVar_ctx_impl_name(f)
ctx_decl(f) ==
  IF f.cls = "Function" THEN Function_ctx_decl(f) ELSE GlobalVar_ctx_decl(f)
trampoline_def(f) ==
  IF f.cls = "Function" THEN Function_trampoline_def(f) ELSE GlobalVar_trampoline_def(f)
ctx_pypy_type(f) ==
  IF f.cls = "Function" THEN Function_ctx_pypy_type(f) ELSE GlobalVar_ctx_pypy_type(f)


\* --------------------------------------------------------- FuncDeclVisitor
\* (mutant of FuncDeclVisitor_init: the list is shared with the earlier visitor)
FuncDeclVisitor_init_shared(earlier) == earlier

\* FuncDeclVisitor.__init__: self.declarations = [], whatever an earlier
\* visitor has collected.
FuncDeclVisitor_init(earlier) == <<>>

\* (mutant of declarations_append: the entry is put in front)
declarations_prepend(decls, entry) == <<entry>> \o decls

\* self.declarations.append(entry)
declarations_append(decls, entry) == Append(decls, entry)

\* The state of a visit: the visitor's declarations, the lines printed on
\* standard output, and the exception raised (None while there is none).
Visit(decls, printed, raised) ==
  [declarations |-> decls, stdout |-> printed, error |-> raised]

\* (mutant of visit_function_ignore: no return after the warning)
visit_function_keep(v, warned, node) ==
  [warned EXCEPT !.declarations = Append(@, Function(node.name, node))]

\* what _visit_function does once it has printed its warning
\* (v is the visit before the warning, warned the visit after it)
visit_function_ignore(v, warned, node) == warned

_visit_function(v, node) ==
  LET name == node.name
      warned == [v EXCEPT !.stdout =
                   Append(@, S("WARNING: Ignoring non-hpy declaration: ") \o name)]
      unnamed == \E i \in 1..Len(node.params) :
                    /\ node.params[i].kind # "EllipsisParam"
                    /\ node.params[i].name = None
  IN IF ~StartsWith(name, <<"H", "P", "y">>) /\ ~StartsWith(name, <<"_", "H", "P", "y">>)
     THEN visit_function_ignore(v, warned, node)
     ELSE IF ~node.hasargs
     THEN [v EXCEPT !.error =
             S("AttributeError: 'NoneType' object has no attribute 'params'")]
     ELSE IF unnamed
     THEN [v EXCEPT !.error =
             S("ValueError: non-named argument in declaration of ") \o name]
     ELSE [v EXCEPT !.declarations = declarations_append(@, Function(name, node))]

\* (mutant of _visit_global_var: the type is asserted before the name is
\* looked at)
visit_global_var_type_first(v, node) ==
  LET name == node.name
  IN IF S(node.type) # S("HPy")
     THEN [v EXCEPT !.error = S("AssertionError")]
     ELSE IF ~StartsWith(name, <<"h", "_">>)
     THEN [v EXCEPT !.stdout =
             Append(@, S("WARNING: Ignoring non-hpy variable declaration: ") \o name)]
     ELSE [v EXCEPT !.declarations = declarations_append(@, GlobalVar(name, node))]

_visit_global_var(v, node) ==
  LET name == node.name
  IN IF ~StartsWith(name, <<"h", "_">>)
     THEN [v EXCEPT !.stdout =
             Append(@, S("WARNING: Ignoring non-hpy variable declaration: ") \o name)]
     ELSE IF S(node.type) # S("HPy")
     THEN [v EXCEPT !.error = S("AssertionError")]
     ELSE [v EXCEPT !.declarations = declarations_append(@, GlobalVar(name, node))]

visit_Decl(v, node) ==
  IF node.shape = "FuncDecl" THEN _visit_function(v, node)
  ELSE IF node.shape = "TypeDecl" THEN _visit_global_var(v, node)
  ELSE v

\* ------------------------------------------------------------------ AutoGen
RECURSIVE ctx_decl_loop(_, _)
\* for f in self.declarations: w('    %s;' % f.ctx_decl()), from entry i on:
\* the lines written and the declarations afterwards
ctx_decl_loop(decls, i) ==
  IF i > Len(decls) THEN [lines |-> <<>>, declarations |-> decls]
  ELSE LET r == ctx_decl(decls[i])
           rest == ctx_decl_loop([decls EXCEPT ![i] = r.self], i + 1)
       IN [lines |-> <<S("    ") \o r.out \o S(";")>> \o rest.lines,
           declarations |-> rest.declarations]

\* the name of the version field
ctx_version == <<"c", "t", "x", "_", "v", "e", "r", "s", "i", "o", "n">>

ctx_decl_head ==
  <<S("struct _HPyContext_s {"), <<"    ", "int", " ">> \o ctx_version \o S(";")>>

gen_ctx_decl(decls) ==
  LET loop == ctx_decl_loop(decls, 1)
  IN [out |-> Join(S("\n"), ctx_decl_head \o loop.lines \o <<S("};")>>),
      declarations |-> loop.declarations]

\* (mutant of ctx_def_head: the version field is left out)
ctx_def_head_unversioned == <<S("struct _HPyContext_s global_ctx = {")>>

ctx_def_head ==
  <<S("struct _HPyContext_s global_ctx = {"),
    S("    .") \o ctx_version \o <<" = ", "1", ",">>>>

ctx_def_line(f) ==
  S("    .") \o ctx_name(f) \o S(" = ") \o ctx_impl_name(f) \o S(",")

gen_ctx_def(decls) ==
  Join(S("\n"),
       ctx_def_head
       \o [i \in 1..Len(decls) |-> ctx_def_line(decls[i])]
       \o <<S("};")>>)

RECURSIVE trampoline_lines(_)
trampoline_lines(decls) ==
  IF decls = <<>> THEN <<>>
  ELSE LET trampoline == trampoline_def(Head(decls))
       IN (IF Truthy(trampoline) THEN <<trampoline, <<>> >> ELSE <<>>)
          \o trampoline_lines(Tail(decls))

gen_func_trampolines(decls) == Join(S("\n"), trampoline_lines(decls))

pypy_decl_head ==
  <<S("HPyContextS = rffi.CStruct('_HPyContext_s',"),
    S("    ('") \o ctx_version \o <<"', ", "rffi.INT_real", "),">>>>

pypy_decl_line(f) ==
  S("    ('") \o ctx_name(f) \o S("', ") \o ctx_pypy_type(f) \o S("),")

gen_pypy_decl(decls) ==
  Join(S("\n"),
       pypy_decl_head
       \o [i \in 1..Len(decls) |-> pypy_decl_line(decls[i])]
       \o <<S("    hints={'eci': eci},"), S(")")>>)

\* --------------------------------------------------------------------- main
\* print(x, file=f)
print(x) == x \o S("\n")

\* (mutant of header_file: the disclaimer is not printed)
header_file_bare(text) == print(text)

\* what main writes to a header: the disclaimer, then the text
header_file(text) == print(DISCLAIMER) \o print(text)

\* what main writes to autogen_pypy.txt
pypy_file(text) == print(text)

\* repr of an entry (attr.s, node excluded from the repr)
repr(f) == S(f.cls) \o S("(name='") \o f.name \o S("')")

\* (mutant of main_order: each text is written as soon as it is generated)
main_order_interleaved ==
  <<"print", "gen_ctx_decl", "write_autogen_ctx",
    "gen_func_trampolines", "write_autogen_func",
    "gen_ctx_def", "write_autogen_ctx_def",
    "gen_pypy_decl", "write_autogen_pypy", "done">>

\* The statements of main after AutoGen(...), in program order.
main_order ==
  <<"print", "gen_ctx_decl", "gen_func_trampolines", "gen_ctx_def", "gen_pypy_decl",
    "write_autogen_ctx", "write_autogen_func", "write_autogen_ctx_def",
    "write_autogen_pypy", "done">>

\* the statement after statement at
after(at) ==
  LET i == CHOOSE k \in 1..Len(main_order) : main_order[k] = at
  IN main_order[i + 1]

Files == {"autogen_ctx", "autogen_func", "autogen_ctx_def", "autogen_pypy"}

\* a text not yet assigned, and a file not yet there
Unset == <<"<unset>">>
Absent == <<"<absent>">>

VARIABLES
  ast,              \* the top-level declarations pycparser.parse_file returns
  run,              \* which run of the tool on this public_api.h this is
  pc,               \* where the run is in main
  idx,              \* the next top-level node the visitor visits
  declarations,     \* v.declarations, then autogen.declarations
  stdout,           \* the lines printed on standard output
  error,            \* the exception that ended the run, None while there is none
  out,              \* main's ctx_decl, func_trampolines, ctx_def, pypy_decl
  opened,           \* the files this run has opened for writing
  files             \* the content of the four output files

vars == <<ast, run, pc, idx, declarations, stdout, error, out, opened, files>>

Texts == {"ctx_decl", "func_trampolines", "ctx_def", "pypy_decl"}

Init ==
  /\ ast \in SeqsUpTo(DeclPool, MaxDecls)
  /\ run = 1
  /\ pc = "start"
  /\ idx = 1
  /\ declarations = <<>>
  /\ stdout = <<>>
  /\ error = None
  /\ out = [t \in Texts |-> Unset]
  /\ opened = {}
  /\ files = [f \in Files |-> Absent]

\* AutoGen.__init__ up to v = FuncDeclVisitor()
AutoGenInit ==
  /\ pc = "start"
  /\ pc' = "visit"
  /\ idx' = 1
  /\ declarations' = FuncDeclVisitor_init(declarations)
  /\ UNCHANGED <<ast, run, stdout, error, out, opened, files>>

\* v.visit(self.ast): one top-level node
VisitNode ==
  /\ pc = "visit"
  /\ idx <= Len(ast)
  /\ LET v == visit_Decl(Visit(declarations, stdout, None), ast[idx])
     IN /\ declarations' = v.declarations
        /\ stdout' = v.stdout
        /\ error' = v.error
        /\ pc' = IF v.error # None THEN "aborted" ELSE "visit"
  /\ idx' = idx + 1
  /\ UNCHANGED <<ast, run, out, opened, files>>

\* self.declarations = v.declarations, and AutoGen(...) returns
CollectDone ==
  /\ pc = "visit"
  /\ idx > Len(ast)
  /\ pc' = "print"
  /\ UNCHANGED <<ast, run, idx, declarations, stdout, error, out, opened, files>>

\* for func in autogen.declarations: print(func)
PrintDeclarations ==
  /\ pc = "print"
  /\ stdout' = stdout \o [i \in 1..Len(declarations) |-> repr(declarations[i])]
  /\ pc' = after(pc)
  /\ UNCHANGED <<ast, run, idx, declarations, error, out, opened, files>>

GenCtxDecl ==
  /\ pc = "gen_ctx_decl"
  /\ LET r == gen_ctx_decl(declarations)
     IN /\ out' = [out EXCEPT !["ctx_decl"] = r.out]
        /\ declarations' = r.declarations
  /\ pc' = after(pc)
  /\ UNCHANGED <<ast, run, idx, stdout, error, opened, files>>

GenFuncTrampolines ==
  /\ pc = "gen_func_trampolines"
  /\ out' = [out EXCEPT !["func_trampolines"] = gen_func_trampolines(declarations)]
  /\ pc' = after(pc)
  /\ UNCHANGED <<ast, run, idx, declarations, stdout, error, opened, files>>

GenCtxDef ==
  /\ pc = "gen_ctx_def"
  /\ out' = [out EXCEPT !["ctx_def"] = gen_ctx_def(declarations)]
  /\ pc' = after(pc)
  /\ UNCHANGED <<ast, run, idx, declarations, stdout, error, opened, files>>

GenPypyDecl ==
  /\ pc = "gen_pypy_decl"
  /\ out' = [out EXCEPT !["pypy_decl"] = gen_pypy_decl(declarations)]
  /\ pc' = after(pc)
  /\ UNCHANGED <<ast, run, idx, declarations, stdout, error, opened, files>>

\* with <file>.open('w') as f: print(...), for the file `file`
Write(at, file, content) ==
  /\ pc = at
  /\ opened' = opened \cup {file}
  /\ files' = [files EXCEPT ![file] = content]
  /\ pc' = after(pc)
  /\ UNCHANGED <<ast, run, idx, declarations, stdout, error, out>>

WriteAutogenCtx ==
  Write("write_autogen_ctx", "autogen_ctx", header_file(out["ctx_decl"]))

WriteAutogenFunc ==
  Write("write_autogen_func", "autogen_func", header_file(out["func_trampolines"]))

WriteAutogenCtxDef ==
  Write("write_autogen_ctx_def", "autogen_ctx_def", header_file(out["ctx_def"]))

WriteAutogenPypy ==
  Write("write_autogen_pypy", "autogen_pypy", pypy_file(out["pypy_decl"]))

\* The tool is run again on the same public_api.h: a new process, whose
\* variables are all set anew by main; only the files are kept.
RunAgain ==
  /\ pc \in {"done", "aborted"}
  /\ run < MaxRuns
  /\ run' = run + 1
  /\ pc' = "start"
  /\ idx' = 1
  /\ stdout' = <<>>
  /\ error' = None
  /\ out' = [t \in Texts |-> Unset]
  /\ opened' = {}
  /\ UNCHANGED <<ast, declarations, files>>

Next ==
  \/ AutoGenInit
  \/ VisitNode
  \/ CollectDone
  \/ PrintDeclarations
  \/ GenCtxDecl
  \/ GenFuncTrampolines
  \/ GenCtxDef
  \/ GenPypyDecl
  \/ WriteAutogenCtx
  \/ WriteAutogenFunc
  \/ WriteAutogenCtxDef
  \/ WriteAutogenPypy
  \/ RunAgain

Spec == Init /\ [][Next]_vars


\* ============================================================= properties
\* --------------------------------------------- reading a text back
\* the first index of atom a in s at or after from, 0 when there is none
RECURSIVE IndexFrom(_, _, _)
IndexFrom(s, a, from) ==
  IF from > Len(s) THEN 0
  ELSE IF s[from] = a THEN from
  ELSE IndexFrom(s, a, from + 1)

\* the atoms of s after its first atom a and before the next atom b
\* (to the end when there is no b); <<>> when there is no a
Between(s, a, b) ==
  LET i == IndexFrom(s, a, 1)
      j == IF i = 0 THEN 0 ELSE IndexFrom(s, b, i + 1)
  IN IF i = 0 THEN <<>>
     ELSE SubSeq(s, i + 1, (IF j = 0 THEN Len(s) ELSE j - 1))

\* the atoms of s after its first atom a
After(s, a) ==
  LET i == IndexFrom(s, a, 1)
  IN IF i = 0 THEN <<>> ELSE SubSeq(s, i + 1, Len(s))

\* s.split(a) for an atom a
RECURSIVE Split(_, _)
Split(s, a) ==
  LET i == IndexFrom(s, a, 1)
  IN IF i = 0 THEN <<s>>
     ELSE <<SubSeq(s, 1, i - 1)>> \o Split(SubSeq(s, i + 1, Len(s)), a)

\* how many atoms a there are in s
Count(s, a) == Cardinality({i \in 1..Len(s) : s[i] = a})

\* the lines of a text that start with the atom lead
FieldLines(text, lead) ==
  SelectSeq(Split(text, "\n"), LAMBDA l : l # <<>> /\ l[1] = lead)

\* the name a line of the struct declaration declares: "(*name)" for a
\* function pointer, else what follows the type
DeclLineName(line) ==
  IF IndexFrom(line, "(*", 1) # 0 THEN Between(line, "(*", ")")
  ELSE Between(After(line, "    "), " ", ";")

\* the field names of the struct declaration, of the struct initializer and
\* of the PyPy descriptor, in the order of their lines
DeclNames(text) ==
  LET ls == FieldLines(text, "    ")
  IN [i \in 1..Len(ls) |-> DeclLineName(ls[i])]
DefNames(text) ==
  LET ls == FieldLines(text, "    .")
  IN [i \in 1..Len(ls) |-> Between(ls[i], "    .", " = ")]
PypyNames(text) ==
  LET ls == FieldLines(text, "    ('")
  IN [i \in 1..Len(ls) |-> Between(ls[i], "    ('", "', ")]

\* the trampolines of the trampoline text, and the slot each calls
Trampolines(text) == FieldLines(text, "static inline")
TrampolineSlot(t) == Between(t, "ctx->", " ")
TrampolineSlots(text) ==
  LET ts == Trampolines(text)
  IN [i \in 1..Len(ts) |-> TrampolineSlot(ts[i])]

\* --------------------------------------------- the accepted declarations
\* A top-level node the visitor, visiting it alone, makes an entry of.
IsAccepted(node) ==
  visit_Decl(Visit(<<>>, <<>>, None), node).declarations # <<>>

\* the entries of the accepted declarations of public_api.h, in source order
RECURSIVE EntriesOf(_)
EntriesOf(nodes) ==
  IF nodes = <<>> THEN <<>>
  ELSE (IF IsAccepted(Head(nodes))
        THEN visit_Decl(Visit(<<>>, <<>>, None), Head(nodes)).declarations
        ELSE <<>>)
       \o EntriesOf(Tail(nodes))

Accepted == EntriesOf(ast)
AcceptedSlots == [i \in 1..Len(Accepted) |-> ctx_name(Accepted[i])]
Callables == SelectSeq(Accepted, LAMBDA f : f.cls = "Function")
CallableSlots == [i \in 1..Len(Callables) |-> ctx_name(Callables[i])]

AllGenerated == \A t \in Texts : out[t] # Unset
NoneGenerated == \A t \in Texts : out[t] = Unset

\* ---------------------------------------------------------------------- C1
\* C1 as stated: once the four texts are generated, each of them (the
\* trampolines included) has exactly one entry per accepted declaration,
\* callable or constant, and the entries are in source order in all four.
C1_OneEntryPerDeclarationInAllFour ==
  AllGenerated =>
    /\ DeclNames(out["ctx_decl"]) = <<ctx_version>> \o AcceptedSlots
    /\ DefNames(out["ctx_def"]) = <<ctx_version>> \o AcceptedSlots
    /\ PypyNames(out["pypy_decl"]) = <<ctx_version>> \o AcceptedSlots
    /\ TrampolineSlots(out["func_trampolines"]) = AcceptedSlots

\* C1 amended: the struct declaration, the struct initializer and the PyPy
\* descriptor have exactly one entry per accepted declaration, and the
\* trampolines exactly one entry per accepted callable (a constant has no
\* trampoline); in all four the entries are in source order.
C1_OneEntryPerDeclaration ==
  AllGenerated =>
    /\ DeclNames(out["ctx_decl"]) = <<ctx_version>> \o AcceptedSlots
    /\ DefNames(out["ctx_def"]) = <<ctx_version>> \o AcceptedSlots
    /\ PypyNames(out["pypy_decl"]) = <<ctx_version>> \o AcceptedSlots
    /\ TrampolineSlots(out["func_trampolines"]) = CallableSlots
    /\ Count(out["func_trampolines"], "static inline") = Len(Callables)

C1_Witness ==
  /\ pc = "done"
  /\ Len(ast) = 2
  /\ Len(Accepted) = 2
  /\ Accepted[1].cls = "GlobalVar"
  /\ Accepted[2].cls = "Function"
  /\ Len(Trampolines(out["func_trampolines"])) = 1

\* ---------------------------------------------------------------------- C2
Collision ==
  \E i, j \in 1..Len(declarations) :
    /\ i # j
    /\ declarations[i].name # declarations[j].name
    /\ ctx_name(declarations[i]) = ctx_name(declarations[j])

NoDuplicates(names) ==
  \A i, j \in 1..Len(names) : names[i] = names[j] => i = j

\* C2: when two distinct accepted declarations have the same slot name the
\* run aborts and writes no file, so that no struct declaration written has
\* two fields of the same name.
C2_CollisionAborts ==
  /\ Collision => (opened = {} /\ pc \in {"start", "visit", "aborted"})
  /\ "autogen_ctx" \in opened => NoDuplicates(DeclNames(files["autogen_ctx"]))


\* ---------------------------------------------------------------------- C3
\* the k-th element of seq, <<>> when there is none
Nth(seq, k) == IF k \in 1..Len(seq) THEN seq[k] ELSE <<>>

\* s without its blanks
NoBlanks(s) == SelectSeq(s, LAMBDA a : a # " ")

\* the arguments a trampoline passes to the slot it calls
CallArgs(t) == Split(NoBlanks(Between(After(t, "ctx->"), "(", ");")), ", ")

\* the parameters of the function pointer a line of the struct declares
DeclParams(line) == Split(Between(line, "(", ")"), ", ")

\* the line of the struct declaration and the trampoline of the i-th
\* accepted declaration
DeclLineOf(i) == Nth(FieldLines(out["ctx_decl"], "    "), i + 1)
TrampolineOf(i) ==
  Nth(Trampolines(out["func_trampolines"]),
      Len(SelectSeq(SubSeq(Accepted, 1, i), LAMBDA f : f.cls = "Function")))

IsVariadic(f) == f.cls = "Function" /\ Function_is_varargs(f)
FixedParams(f) == SubSeq(f.node.params, 1, Len(f.node.params) - 1)

\* C3: for every accepted callable with N >= 1 fixed parameters and an
\* ellipsis, the trampoline passes N+1 arguments to the slot (the N names in
\* order, then _vl), the function pointer of the struct declaration has N+1
\* parameters (the N declared, then 'va_list _vl'), and the struct
\* declaration holds no ellipsis.
C3_VariadicArity ==
  AllGenerated =>
    \A i \in 1..Len(Accepted) :
      IsVariadic(Accepted[i]) =>
        LET fixed == FixedParams(Accepted[i])
            N == Len(fixed)
            args == CallArgs(TrampolineOf(i))
            ps == DeclParams(DeclLineOf(i))
        IN /\ Len(args) = N + 1
           /\ args = [j \in 1..N |-> fixed[j].name] \o <<S("_vl")>>
           /\ Len(ps) = N + 1
           /\ ps = [j \in 1..N |-> ParamToC(fixed[j])] \o << <<"va_list", " ", "_vl">> >>
           /\ Count(out["ctx_decl"], "...") = 0

C3_Witness ==
  /\ AllGenerated
  /\ \E i \in 1..Len(Accepted) :
       /\ IsVariadic(Accepted[i])
       /\ Len(FixedParams(Accepted[i])) = 2
       /\ Len(CallArgs(TrampolineOf(i))) = 3
  /\ \E i \in 1..Len(Accepted) :
       IsVariadic(Accepted[i]) /\ Len(FixedParams(Accepted[i])) = 1

SecondLine(text) == Nth(Split(text, "\n"), 2)

\* C5: in the struct declaration, the struct initializer and the PyPy
\* descriptor, ctx_version is the first field, on the line after the opening
\* line, whatever the number of entries; the initializer binds it to 1.
C5_VersionFirst ==
  /\ out["ctx_decl"] # Unset =>
       /\ Nth(DeclNames(out["ctx_decl"]), 1) = ctx_version
       /\ DeclLineName(SecondLine(out["ctx_decl"])) = ctx_version
       /\ Len(DeclNames(out["ctx_decl"])) = 1 + Len(declarations)
  /\ out["ctx_def"] # Unset =>
       /\ Nth(DefNames(out["ctx_def"]), 1) = ctx_version
       /\ Between(SecondLine(out["ctx_def"]), "    .", " = ") = ctx_version
       /\ Between(SecondLine(out["ctx_def"]), " = ", ",") = S("1")
       /\ Len(DefNames(out["ctx_def"])) = 1 + Len(declarations)
  /\ out["pypy_decl"] # Unset =>
       /\ Nth(PypyNames(out["pypy_decl"]), 1) = ctx_version
       /\ Between(SecondLine(out["pypy_decl"]), "    ('", "', ") = ctx_version
       /\ Len(PypyNames(out["pypy_decl"])) = 1 + Len(declarations)

C5_Witness ==
  /\ AllGenerated
  /\ Len(declarations) = 2
  /\ Len(DefNames(out["ctx_def"])) = 3

TextOf(f) ==
  CASE f = "autogen_ctx" -> out["ctx_decl"]
    [] f = "autogen_func" -> out["func_trampolines"]
    [] f = "autogen_ctx_def" -> out["ctx_def"]
    [] f = "autogen_pypy" -> out["pypy_decl"]

Unrecognized(node) ==
  \/ /\ node.shape = "FuncDecl"
     /\ ~StartsWith(node.name, <<"H", "P", "y">>)
     /\ ~StartsWith(node.name, <<"_", "H", "P", "y">>)
  \/ /\ node.shape = "TypeDecl"
     /\ ~StartsWith(node.name, <<"h", "_">>)

WarningFor(node) ==
  (IF node.shape = "FuncDecl"
   THEN S("WARNING: Ignoring non-hpy declaration: ")
   ELSE S("WARNING: Ignoring non-hpy variable declaration: ")) \o node.name

RemoveAt(seq, i) == SubSeq(seq, 1, i - 1) \o SubSeq(seq, i + 1, Len(seq))

\* a whole visit of the nodes, stopping at the first exception
RECURSIVE visit_all(_, _)
visit_all(v, nodes) ==
  IF nodes = <<>> \/ v.error # None THEN v
  ELSE visit_all(visit_Decl(v, Head(nodes)), Tail(nodes))

Collected(nodes) == visit_all(Visit(<<>>, <<>>, None), nodes)

\* the four texts main generates from the nodes
GeneratedFrom(nodes) ==
  LET d == gen_ctx_decl(Collected(nodes).declarations)
  IN [t \in Texts |->
        CASE t = "ctx_decl" -> d.out
          [] t = "func_trampolines" -> gen_func_trampolines(d.declarations)
          [] t = "ctx_def" -> gen_ctx_def(d.declarations)
          [] t = "pypy_decl" -> gen_pypy_decl(d.declarations)]

C8_AllOrNothing ==
  /\ error # None =>
       /\ pc = "aborted"
       /\ NoneGenerated
       /\ opened = {}
       /\ files = [f \in Files |-> Absent]
  /\ ~NoneGenerated => (error = None /\ idx > Len(ast))
  /\ opened # {} => AllGenerated
  /\ \A f \in Files : files[f] # Absent => (run > 1 \/ AllGenerated)

C8_Witness ==
  /\ pc = "aborted"
  /\ Len(declarations) = 1
  /\ error # None
  /\ opened = {}

\* ---------------------------------------------------------------------- C9
\* C9: in the trampoline of a variadic callable the statements are, in this
\* order: va_start naming the last named parameter, one call through the
\* slot of the callable, va_end, and (only when the return type is not void)
\* the return of the value the call has produced; no return before va_end.
C9_VariadicStatementOrder ==
  AllGenerated =>
    \A i \in 1..Len(Accepted) :
      IsVariadic(Accepted[i]) =>
        LET f == Accepted[i]
            t == TrampolineOf(i)
            fixed == FixedParams(f)
            iStart == IndexFrom(t, "va_start(_vl, ", 1)
            iCall == IndexFrom(t, "ctx->", 1)
            iEnd == IndexFrom(t, "va_end(_vl);", 1)
            iRet == IndexFrom(t, "return _res;", 1)
        IN /\ 0 < iStart /\ iStart < iCall /\ iCall < iEnd
           /\ Count(t, "va_start(_vl, ") = 1
           /\ Between(t, "va_start(_vl, ", ");") = fixed[Len(fixed)].name
           /\ Count(t, "ctx->") = 1
           /\ TrampolineSlot(t) = ctx_name(f)
           /\ Count(t, "va_end(_vl);") = 1
           /\ Count(t, "return ") = 0
           /\ IF f.node.type = "void"
              THEN iRet = 0 /\ Count(t, " _res = ") = 0
              ELSE /\ iEnd < iRet
                   /\ Count(t, "return _res;") = 1
                   /\ t[iCall - 1] = " _res = "

C9_Witness ==
  /\ AllGenerated
  /\ \E i \in 1..Len(Accepted) :
       /\ IsVariadic(Accepted[i])
       /\ Accepted[i].node.type # "void"
       /\ Len(FixedParams(Accepted[i])) = 2
       /\ IndexFrom(TrampolineOf(i), "return _res;", 1) > 0
  /\ \E i \in 1..Len(Accepted) :
       IsVariadic(Accepted[i]) /\ Accepted[i].node.type = "void"

\* --------------------------------------------------------------------- C10
\* the value the struct initializer binds the i-th accepted declaration to
DefValueOf(i) ==
  LET line == Nth(FieldLines(out["ctx_def"], "    ."), i + 1)
      bound == After(line, " = ")
  IN SubSeq(bound, 1, Len(bound) - 1)

\* C10: the field names of the struct initializer are the field names of the
\* struct declaration, in the same order; a callable's field is bound to the
\* address of the implementation of the same name, a constant's field to
\* CONSTANT_<the field name in upper case>.
C10_InitializerMatchesDeclaration ==
  AllGenerated =>
    /\ DefNames(out["ctx_def"]) = DeclNames(out["ctx_decl"])
    /\ Len(DefNames(out["ctx_def"])) = 1 + Len(Accepted)
    /\ \A i \in 1..Len(Accepted) :
         LET field == Nth(DeclNames(out["ctx_decl"]), i + 1)
         IN IF Accepted[i].cls = "Function"
            THEN DefValueOf(i) = S("&") \o field
            ELSE DefValueOf(i) = S("(HPy){CONSTANT_") \o Upper(field) \o S("}")

C10_Witness ==
  /\ pc = "done"
  /\ Len(Accepted) = 2
  /\ Accepted[1].cls = "Function"
  /\ Accepted[2].cls = "GlobalVar"
  /\ Len(DefNames(out["ctx_def"])) = 3


\* --------------------------------------------------------------------- C11
\* the signature a trampoline is declared with
TrampolineSignature(t) ==
  LET sig == Between(t, "static inline", "{\n    ")
  IN SubSeq(sig, 2, Len(sig) - 1)

\* C11: the trampoline of every accepted non-variadic callable has the
\* declared signature, and its body is one call through the callable's slot
\* that passes every declared parameter name, unchanged and in order; the
\* result is returned when the return type is not void, and the call is a
\* bare statement, with no return, when it is void.
C11_NonVariadicTrampoline ==
  AllGenerated =>
    \A i \in 1..Len(Accepted) :
      (Accepted[i].cls = "Function" /\ ~IsVariadic(Accepted[i])) =>
        LET f == Accepted[i]
            t == TrampolineOf(i)
            iBody == IndexFrom(t, "{\n    ", 1)
            iCall == IndexFrom(t, "ctx->", 1)
        IN /\ TrampolineSignature(t) = toC(f.node)
           /\ Count(t, "ctx->") = 1
           /\ TrampolineSlot(t) = Nth(DeclNames(out["ctx_decl"]), i + 1)
           /\ CallArgs(t) = [j \in 1..Len(f.node.params) |-> f.node.params[j].name]
           /\ Count(t, "va_start(_vl, ") = 0
           /\ Count(t, "return _res;") = 0
           /\ t[Len(t)] = "\n}"
           /\ SubSeq(After(After(t, "ctx->"), ");"), 1, 1) = S(" ")
           /\ IF f.node.type = "void"
              THEN Count(t, "return ") = 0 /\ iCall = iBody + 2
              ELSE /\ Count(t, "return ") = 1
                   /\ iCall = iBody + 3
                   /\ t[iCall - 1] = "return "

C11_Witness ==
  /\ AllGenerated
  /\ \E i \in 1..Len(Accepted) :
       /\ Accepted[i].cls = "Function" /\ ~IsVariadic(Accepted[i])
       /\ Accepted[i].node.type = "void"
       /\ Count(TrampolineOf(i), "return ") = 0
  /\ \E i \in 1..Len(Accepted) :
       /\ Accepted[i].cls = "Function" /\ ~IsVariadic(Accepted[i])
       /\ Accepted[i].node.type # "void"
       /\ Len(CallArgs(TrampolineOf(i))) = 2


\* --------------------------------------------------------------------- C12
\* slot is name with one optional leading underscore, the token and the one
\* underscore that may follow the token stripped, and 'ctx_' put in front:
\* u and e are the numbers of underscores stripped before and after the token
Rewritten(name, slot, token) ==
  \E u \in {0, 1}, e \in {0, 1} :
    LET k == u + Len(token)
    IN /\ Len(name) >= k + e
       /\ u = 1 => name[1] = "_"
       /\ SubSeq(name, u + 1, k) = token
       /\ e = 1 => name[k + 1] = "_"
       /\ e = 0 => (Len(name) = k \/ name[k + 1] # "_")
       /\ slot = <<"c", "t", "x", "_">> \o SubSeq(name, k + e + 1, Len(name))

\* the slot name the struct declaration gives the i-th accepted declaration
SlotOf(i) == Nth(DeclNames(out["ctx_decl"]), i + 1)

\* C12 as stated: the slot name of every accepted declaration, callable or
\* constant, is 'ctx_' followed by the declared name without its optional
\* leading underscore and its prefix token.
C12_EverySlotNameRewritten ==
  AllGenerated =>
    \A i \in 1..Len(Accepted) :
      /\ StartsWith(SlotOf(i), <<"c", "t", "x", "_">>)
      /\ Rewritten(Accepted[i].name, SlotOf(i),
                   (IF Accepted[i].cls = "Function" THEN <<"H", "P", "y">> ELSE S("h")))

\* C12 amended: the slot name of every accepted callable is 'ctx_' followed
\* by the declared name without its optional leading underscore, the token
\* HPy and the one underscore that may follow the token, nothing else being
\* removed or altered; the slot name of an accepted constant is its declared
\* name, unchanged and without 'ctx_'.
C12_SlotNameRewrite ==
  AllGenerated =>
    \A i \in 1..Len(Accepted) :
      IF Accepted[i].cls = "Function"
      THEN /\ StartsWith(SlotOf(i), <<"c", "t", "x", "_">>)
           /\ Rewritten(Accepted[i].name, SlotOf(i), <<"H", "P", "y">>)
      ELSE /\ SlotOf(i) = Accepted[i].name
           /\ ~StartsWith(SlotOf(i), <<"c", "t", "x", "_">>)

C12_Witness ==
  /\ AllGenerated
  /\ Len(Accepted) = 2
  /\ Accepted[1].name = N__HPy_F
  /\ SlotOf(1) = <<"c", "t", "x", "_", "F">>
  /\ Accepted[2].name = N_HPyE
  /\ SlotOf(2) = <<"c", "t", "x", "_", "E">>


\* --------------------------------------------------------------------- C13
\* the type tags of the PyPy descriptor, in the order of its lines
PypyTags(text) ==
  LET ls == FieldLines(text, "    ('")
  IN [i \in 1..Len(ls) |-> Between(After(ls[i], "    ('"), "', ", "),")]

\* C13: the PyPy descriptor lists (name, tag) pairs, ctx_version first and
\* then one pair per accepted declaration in the order of the struct
\* declaration, under the name the struct declaration gives the field; the
\* tag is rffi.VOIDP for a callable and HPy for a constant.
C13_DescriptorMirrorsTable ==
  AllGenerated =>
    LET names == PypyNames(out["pypy_decl"])
        tags == PypyTags(out["pypy_decl"])
    IN /\ names = DeclNames(out["ctx_decl"])
       /\ Len(names) = 1 + Len(Accepted)
       /\ Len(tags) = Len(names)
       /\ names[1] = ctx_version
       /\ \A i \in 1..Len(Accepted) :
            /\ names[i + 1] = SlotOf(i)
            /\ tags[i + 1] = (IF Accepted[i].cls = "Function"
                              THEN S("rffi.VOIDP") ELSE S("HPy"))

C13_Witness ==
  /\ pc = "done"
  /\ Len(Accepted) = 2
  /\ Accepted[1].cls = "Function"
  /\ Accepted[2].cls = "GlobalVar"
  /\ PypyTags(out["pypy_decl"]) = <<S("rffi.INT_real"), S("rffi.VOIDP"), S("HPy")>>


\* --------------------------------------------------------------------- C14
\* the visitor is about to visit a simple variable
AtVariable ==
  pc = "visit" /\ idx <= Len(ast) /\ ast[idx].shape = "TypeDecl"

\* C14: the visit of a simple variable looks at the name before the type.
\* Without the prefix 'h_' the variable is warned about and dropped whatever
\* its type, and the visit goes on; with the prefix and a type other than
\* HPy the run fails, with no warning and no entry appended; with the prefix
\* and the type HPy, and only then, one constant entry is appended.
C14_VariableClassification ==
  [][AtVariable =>
       LET node == ast[idx]
           prefixed == StartsWith(node.name, <<"h", "_">>)
           handle == node.type = "HPy"
       IN /\ ~prefixed =>
               /\ stdout' = Append(stdout, WarningFor(node))
               /\ declarations' = declarations
               /\ error' = None /\ pc' = "visit"
          /\ (prefixed /\ ~handle) =>
               /\ error' # None /\ pc' = "aborted"
               /\ stdout' = stdout
               /\ declarations' = declarations
          /\ (prefixed /\ handle) =>
               /\ declarations' = Append(declarations, GlobalVar(node.name, node))
               /\ stdout' = stdout
               /\ error' = None /\ pc' = "visit"
          /\ (declarations' # declarations) <=> (prefixed /\ handle)
    ]_vars

C14_Witness ==
  /\ pc = "aborted"
  /\ Len(ast) = 2
  /\ ast[1].shape = "TypeDecl" /\ ast[1].name = N_g_N /\ ast[1].type = "int"
  /\ ast[2].shape = "TypeDecl" /\ ast[2].name = N_h_T /\ ast[2].type = "int"
  /\ declarations = <<>>
  /\ Len(stdout) = 1


\* --------------------------------------------------------------------- C15
\* The generators of an AutoGen as its callers may use them: once the
\* declarations are collected, any of the four is called, in any order and
\* any number of times.
CollectDoneAnyOrder ==
  /\ pc = "visit"
  /\ idx > Len(ast)
  /\ pc' = "generators"
  /\ UNCHANGED <<ast, run, idx, declarations, stdout, error, out, opened, files>>

CallGenCtxDecl ==
  /\ pc = "generators"
  /\ LET r == gen_ctx_decl(declarations)
     IN /\ out' = [out EXCEPT !["ctx_decl"] = r.out]
        /\ declarations' = r.declarations
  /\ UNCHANGED <<ast, run, pc, idx, stdout, error, opened, files>>

CallGenFuncTrampolines ==
  /\ pc = "generators"
  /\ out' = [out EXCEPT !["func_trampolines"] = gen_func_trampolines(declarations)]
  /\ UNCHANGED <<ast, run, pc, idx, declarations, stdout, error, opened, files>>

CallGenCtxDef ==
  /\ pc = "generators"
  /\ out' = [out EXCEPT !["ctx_def"] = gen_ctx_def(declarations)]
  /\ UNCHANGED <<ast, run, pc, idx, declarations, stdout, error, opened, files>>

CallGenPypyDecl ==
  /\ pc = "generators"
  /\ out' = [out EXCEPT !["pypy_decl"] = gen_pypy_decl(declarations)]
  /\ UNCHANGED <<ast, run, pc, idx, declarations, stdout, error, opened, files>>

NextAnyOrder ==
  \/ AutoGenInit
  \/ VisitNode
  \/ CollectDoneAnyOrder
  \/ CallGenCtxDecl
  \/ CallGenFuncTrampolines
  \/ CallGenCtxDef
  \/ CallGenPypyDecl

SpecAnyOrder == Init /\ [][NextAnyOrder]_vars

\* C15: whatever generators have been called, in whatever order and however
\* often, the entries are those the visitor has made of public_api.h, each
\* with the node it was declared with (a variadic callable still ends in an
\* ellipsis, is no pointer and has its declared name), and every text
\* generated is the text main generates.
C15_EntriesUnchanged ==
  pc = "generators" =>
    /\ declarations = Accepted
    /\ \A i \in 1..Len(declarations) :
         LET node == declarations[i].node
         IN /\ node = ast[CHOOSE k \in 1..Len(ast) : ast[k].name = declarations[i].name]
            /\ node.declname = declarations[i].name
            /\ ~node.ptr
            /\ IsVariadic(Accepted[i]) =>
                 node.params[Len(node.params)].kind = "EllipsisParam"
    /\ \A t \in Texts : out[t] # Unset => out[t] = GeneratedFrom(ast)[t]

\* pypy_decl has been generated before ctx_def, and ctx_decl before the
\* trampolines or after them, with a variadic callable among the entries
C15_Witness ==
  /\ pc = "generators"
  /\ out["ctx_decl"] # Unset
  /\ out["func_trampolines"] # Unset
  /\ out["pypy_decl"] # Unset
  /\ out["ctx_def"] = Unset
  /\ Len(declarations) = 2
  /\ IsVariadic(declarations[1])
  /\ declarations[2].cls = "GlobalVar"

====
